---------------------------- MODULE Spec2Model ----------------------------
(***************************************************************************)
(* Model of agent_tools/tool_get_price_local.py: the in-memory price       *)
(* cache (_PRICE_CACHE, _CACHE_LOCK, _CACHE_LOADED), its bulk loader, the  *)
(* daily/hourly lookups with the Azure Table Storage fallback, the         *)
(* "today" redaction, the cache statistics and the forced refresh.         *)
(*                                                                         *)
(* Python values are represented as follows.                               *)
(*   str used as date / key : a sequence of one-character strings, so that *)
(*                            strptime, the ' '/'T' test, the row-key      *)
(*                            prefix and sorted() are computed.            *)
(*   str used as symbol     : a TLA+ string ("" is the falsy symbol).      *)
(*   dict                   : a function; dict.get(k) is Get(d, k).        *)
(*   JSON number / null     : a string ("10", "null").                     *)
(***************************************************************************)
EXTENDS Integers, Sequences, FiniteSets, TLC

(***************************************************************************)
(* Bounds of the model.                                                    *)
(***************************************************************************)
NumThreads == 2
MaxCalls == 2
MaxRewrites == 1
MaxLines == 2
MaxPuts == 1

(***************************************************************************)
(* Program constants.                                                      *)
(***************************************************************************)
NumSources == 5
SampleSize == 5
SymbolSample == 20

PyNone == "null"

Get(d, k) == IF k \in DOMAIN d THEN d[k] ELSE PyNone

EmptyDict == [k \in {} |-> PyNone]

UpdateKeepOld(d, e) == [k \in (DOMAIN d) \cup (DOMAIN e) |-> IF k \in DOMAIN d THEN d[k] ELSE e[k]]

Update(d, e) == [k \in (DOMAIN d) \cup (DOMAIN e) |-> IF k \in DOMAIN e THEN e[k] ELSE d[k]]

Truthy(d) == DOMAIN d # {}

(***************************************************************************)
(* Date strings and datetime.strptime.                                     *)
(***************************************************************************)
Digits == <<"0", "1", "2", "3", "4", "5", "6", "7", "8", "9">>

IsDigit(c) == \E i \in 1..10 : Digits[i] = c

DigitVal(c) == (CHOOSE i \in 1..10 : Digits[i] = c) - 1

AllDigits(t) == \A i \in 1..Len(t) : IsDigit(t[i])

RECURSIVE Num(_)
Num(t) == IF Len(t) = 0 THEN 0
          ELSE 10 * Num(SubSeq(t, 1, Len(t) - 1)) + DigitVal(t[Len(t)])

Contains(s, c) == \E i \in 1..Len(s) : s[i] = c

\* %Y : \d\d\d\d, and datetime() needs year >= 1
YearTok(t) == Len(t) = 4 /\ AllDigits(t) /\ Num(t) >= 1

\* %m : 1[0-2]|0[1-9]|[1-9]
MonthTok(t) == /\ Len(t) \in {1, 2}
               /\ AllDigits(t)
               /\ Num(t) \in 1..12

\* %d : 3[01]|[12]\d|0[1-9]|[1-9]| [1-9]
DayTok(t) == \/ Len(t) \in {1, 2} /\ AllDigits(t) /\ Num(t) \in 1..31
             \/ Len(t) = 2 /\ t[1] = " " /\ IsDigit(t[2]) /\ DigitVal(t[2]) >= 1

DayVal(t) == IF t[1] = " " THEN DigitVal(t[2]) ELSE Num(t)

\* %H : 2[0-3]|[0-1]\d|\d
HourTok(t) == Len(t) \in {1, 2} /\ AllDigits(t) /\ Num(t) \in 0..23

\* %M : [0-5]\d|\d ; %S : 6[0-1]|[0-5]\d|\d, and datetime() needs second <= 59
MinSecTok(t) == Len(t) \in {1, 2} /\ AllDigits(t) /\ Num(t) \in 0..59

IsLeap(y) == (y % 4 = 0 /\ y % 100 # 0) \/ y % 400 = 0

DaysIn(y, m) == IF m = 2 THEN (IF IsLeap(y) THEN 29 ELSE 28)
                ELSE IF m \in {4, 6, 9, 11} THEN 30 ELSE 31

\* the text matches "%Y-%m-%d" and names a day of the calendar
DateOk(s) ==
    \E i \in 1..Len(s) :
        /\ s[i] = "-"
        /\ YearTok(SubSeq(s, 1, i - 1))
        /\ \E j \in (i + 1)..Len(s) :
              /\ s[j] = "-"
              /\ MonthTok(SubSeq(s, i + 1, j - 1))
              /\ DayTok(SubSeq(s, j + 1, Len(s)))
              /\ DayVal(SubSeq(s, j + 1, Len(s))) <=
                     DaysIn(Num(SubSeq(s, 1, i - 1)), Num(SubSeq(s, i + 1, j - 1)))

\* the text matches "%H:%M:%S"
TimeOk(s) ==
    \E c \in 1..Len(s) :
        /\ s[c] = ":"
        /\ HourTok(SubSeq(s, 1, c - 1))
        /\ \E d \in (c + 1)..Len(s) :
              /\ s[d] = ":"
              /\ MinSecTok(SubSeq(s, c + 1, d - 1))
              /\ MinSecTok(SubSeq(s, d + 1, Len(s)))

\* datetime.strptime(date_str, "%Y-%m-%d") does not raise ValueError
_validate_date_daily(date_str) == DateOk(date_str)

\* datetime.strptime(date_str, "%Y-%m-%d %H:%M:%S") does not raise ValueError;
\* the blank of the format matches one or more blanks of the text
_validate_date_hourly(date_str) ==
    \E a \in 2..Len(date_str) : \E b \in a..Len(date_str) :
        /\ \A i \in a..b : date_str[i] = " "
        /\ DateOk(SubSeq(date_str, 1, a - 1))
        /\ TimeOk(SubSeq(date_str, b + 1, Len(date_str)))


(***************************************************************************)
(* str comparison (code point order) and sorted(keys, reverse=True)[:5].   *)
(***************************************************************************)
Alphabet == <<" ", "-", "0", "1", "2", "3", "4", "5", "6", "7", "8", "9", ":", "T", "_", "d", "h", "l", "o", "r", "u", "y">>

Code(c) == CHOOSE i \in 1..Len(Alphabet) : Alphabet[i] = c

RECURSIVE StrLess(_, _)
StrLess(a, b) == IF Len(b) = 0 THEN FALSE
                 ELSE IF Len(a) = 0 THEN TRUE
                 ELSE IF a[1] = b[1] THEN StrLess(Tail(a), Tail(b))
                 ELSE Code(a[1]) < Code(b[1])

RECURSIVE SortedAsc(_)
SortedAsc(K) == IF K = {} THEN <<>>
                ELSE LET m == CHOOSE x \in K : \A y \in K : y = x \/ StrLess(x, y)
                     IN <<m>> \o SortedAsc(K \ {m})

RECURSIVE SortedDesc(_)
SortedDesc(K) == IF K = {} THEN <<>>
                 ELSE LET m == CHOOSE x \in K : \A y \in K : y = x \/ StrLess(y, x)
                      IN <<m>> \o SortedDesc(K \ {m})

Take(q, n) == SubSeq(q, 1, IF Len(q) < n THEN Len(q) ELSE n)

(***************************************************************************)
(* The data of the model: date strings, bars, source lines.                *)
(***************************************************************************)
D1 == <<"2", "0", "2", "5", "-", "0", "1", "-", "0", "1">>
D2 == <<"2", "0", "2", "5", "-", "0", "1", "-", "0", "2">>
H1 == <<"2", "0", "2", "5", "-", "0", "1", "-", "0", "1", " ", "1", "0", ":", "0", "0", ":", "0", "0">>
BadD == <<"2", "0", "2", "5", "-", "1", "3", "-", "4", "0">>
TBad == <<"2", "0", "2", "5", "-", "0", "1", "-", "0", "1", "T", "1", "0", ":", "0", "0", ":", "0", "0">>

D3 == <<"2", "0", "2", "5", "-", "0", "1", "-", "0", "3">>
D4 == <<"2", "0", "2", "5", "-", "0", "1", "-", "0", "4">>
D5 == <<"2", "0", "2", "5", "-", "0", "1", "-", "0", "5">>
D6 == <<"2", "0", "2", "5", "-", "0", "1", "-", "0", "6">>
D7 == <<"2", "0", "2", "5", "-", "0", "1", "-", "0", "7">>

DateInputs == {D1, D2, H1, BadD, TBad}

SymbolInputs == {"X", "Y"}

BarA == ("1. buy price" :> "10") @@ ("2. high" :> "12") @@ ("3. low" :> "9") @@ ("4. sell price" :> "11") @@ ("5. volume" :> "100")
BarB == ("1. buy price" :> "20") @@ ("2. high" :> "22") @@ ("3. low" :> "19") @@ ("4. sell price" :> "21") @@ ("5. volume" :> "200")
BarN == ("1. buy price" :> "30") @@ ("2. high" :> PyNone)
BarE == EmptyDict

DAILY == "Time Series (Daily)"
HOURLY == "Time Series (60min)"

\* a line that json.loads turns into a document with "Meta Data" and series fields
Doc(symbol, field, series) ==
    [kind |-> "doc", meta |-> ("2. Symbol" :> symbol), fields |-> (field :> series)]

Blank == [kind |-> "blank", meta |-> EmptyDict, fields |-> EmptyDict]
\* a line json.loads rejects with JSONDecodeError
Malformed == [kind |-> "malformed", meta |-> EmptyDict, fields |-> EmptyDict]
\* a line json.loads accepts as a value without .get (a list, a number, null)
NonDoc == [kind |-> "nondoc", meta |-> EmptyDict, fields |-> EmptyDict]
\* a document without "Meta Data"
NoSymbol == [kind |-> "doc", meta |-> EmptyDict, fields |-> (DAILY :> (D2 :> BarB))]
\* a document whose "Meta Data" is null: doc.get returns None, which has no .get
NullMeta == [kind |-> "nullmeta", meta |-> EmptyDict, fields |-> (DAILY :> (D2 :> BarB))]
\* a document that carries a daily and an hourly series
DocBoth == [kind |-> "doc", meta |-> ("2. Symbol" :> "X"),
            fields |-> (DAILY :> (D2 :> BarB)) @@ (HOURLY :> (H1 :> BarA))]
\* a daily series of more keys than an error lists
SixDays == (D1 :> BarA) @@ (D3 :> BarA) @@ (D4 :> BarB) @@ (D5 :> BarA) @@ (D6 :> BarB) @@ (D7 :> BarA)

Lines == {Blank, Malformed, NonDoc, NoSymbol, NullMeta, DocBoth,
          Doc("X", DAILY, SixDays),
          Doc("X", DAILY, D1 :> BarA),
          Doc("X", DAILY, (D1 :> BarB) @@ (D2 :> BarN)),
          Doc("X", DAILY, D1 :> BarE),
          Doc("X", HOURLY, H1 :> BarA),
          Doc("Y", DAILY, D2 :> BarB)}

Missing == [exists |-> FALSE, lines |-> <<>>]
File(q) == [exists |-> TRUE, lines |-> q]

(***************************************************************************)
(* The bulk loader.  A dict of symbols keeps its insertion order in keys.  *)
(***************************************************************************)
EmptyCache == [keys |-> <<>>, rec |-> EmptyDict]

LoadLineBothSeries(cache, line, series_key, cache_type) ==
    IF line.kind \in {"blank", "malformed"} THEN [cache |-> cache, count |-> 0, raised |-> FALSE]
    ELSE IF line.kind \in {"nondoc", "nullmeta"} THEN [cache |-> cache, count |-> 0, raised |-> TRUE]
    ELSE LET meta == line.meta
             symbol == Get(meta, "2. Symbol")
             series == IF series_key \in DOMAIN line.fields THEN line.fields[series_key] ELSE EmptyDict
             created == IF symbol \in DOMAIN cache.rec THEN cache
                        ELSE [keys |-> Append(cache.keys, symbol),
                              rec |-> cache.rec @@ (symbol :> [daily |-> EmptyDict, hourly |-> EmptyDict, meta |-> meta])]
             merged == [created EXCEPT !.rec[symbol].daily = Update(@, series),
                                       !.rec[symbol].hourly = Update(@, series)]
         IN IF symbol \in {PyNone, ""} THEN [cache |-> cache, count |-> 0, raised |-> FALSE]
            ELSE [cache |-> merged, count |-> 1, raised |-> FALSE]

\* the body of the for loop, lines 77-93, for one line
LoadLine(cache, line, series_key, cache_type) ==
    IF line.kind \in {"blank", "malformed"} THEN [cache |-> cache, count |-> 0, raised |-> FALSE]
    ELSE IF line.kind \in {"nondoc", "nullmeta"} THEN [cache |-> cache, count |-> 0, raised |-> TRUE]
    ELSE LET meta == line.meta
             symbol == Get(meta, "2. Symbol")
             series == IF series_key \in DOMAIN line.fields THEN line.fields[series_key] ELSE EmptyDict
             created == IF symbol \in DOMAIN cache.rec THEN cache
                        ELSE [keys |-> Append(cache.keys, symbol),
                              rec |-> cache.rec @@ (symbol :> [daily |-> EmptyDict, hourly |-> EmptyDict, meta |-> meta])]
             merged == [created EXCEPT !.rec[symbol][cache_type] = Update(@, series)]
         IN IF symbol \in {PyNone, ""} THEN [cache |-> cache, count |-> 0, raised |-> FALSE]
            ELSE [cache |-> merged, count |-> 1, raised |-> FALSE]

RECURSIVE LoadLines(_, _, _, _, _)
LoadLines(cache, lines, series_key, cache_type, count) ==
    IF lines = <<>> THEN [cache |-> cache, count |-> count, raised |-> FALSE]
    ELSE LET r == LoadLine(cache, Head(lines), series_key, cache_type)
         IN IF r.raised THEN [cache |-> r.cache, count |-> count, raised |-> TRUE]
            ELSE LoadLines(r.cache, Tail(lines), series_key, cache_type, count + r.count)

_load_jsonl_to_cache(cache, file, series_key, cache_type) ==
    IF ~file.exists THEN [cache |-> cache, count |-> 0, raised |-> FALSE]
    ELSE LoadLines(cache, file.lines, series_key, cache_type, 0)

\* the fixed list of sources of _ensure_cache_loaded, in its order
Sources == <<[path |-> "data/merged.jsonl", series_key |-> DAILY, cache_type |-> "daily"],
             [path |-> "data/merged_hourly.jsonl", series_key |-> HOURLY, cache_type |-> "hourly"],
             [path |-> "data/A_stock/merged.jsonl", series_key |-> DAILY, cache_type |-> "daily"],
             [path |-> "data/A_stock/merged_hourly.jsonl", series_key |-> HOURLY, cache_type |-> "hourly"],
             [path |-> "data/crypto/crypto_merged.jsonl", series_key |-> DAILY, cache_type |-> "daily"]>>

LoadSource(cache, fs, i) ==
    _load_jsonl_to_cache(cache, fs[i], Sources[i].series_key, Sources[i].cache_type)

\* a whole pass over the sources from source i on (what one uninterrupted load produces)
RECURSIVE LoadFrom(_, _, _)
LoadFrom(cache, fs, i) ==
    IF i > NumSources THEN [cache |-> cache, raised |-> FALSE]
    ELSE LET r == LoadSource(cache, fs, i)
         IN IF r.raised THEN [cache |-> r.cache, raised |-> TRUE]
            ELSE LoadFrom(r.cache, fs, i + 1)

FreshLoad(fs) == LoadFrom(EmptyCache, fs, 1)

(***************************************************************************)
(* Azure Table Storage.                                                    *)
(***************************************************************************)
HourlyPrefix == <<"h", "o", "u", "r", "l", "y", "_">>

RowKeyPlain(date, data_type) == date

\* row_key = f"{data_type}_{date}" if data_type == "hourly" else date
RowKey(date, data_type) == IF data_type = "hourly" THEN HourlyPrefix \o date ELSE date

EntA == ("open" :> "40") @@ ("high" :> "42") @@ ("low" :> "39") @@ ("close" :> "41") @@ ("volume" :> "400")
EntN == ("open" :> "50") @@ ("close" :> PyNone)

\* the rows the store holds: a daily row and an hourly row of symbol Y
InitialTable == (<<"Y", D1>> :> EntA) @@ (<<"Y", HourlyPrefix \o H1>> :> EntN)

\* lines 185-201; failed: get_entity raised for a reason other than a missing row
_get_from_azure_table(enabled, tbl, symbol, date, data_type, failed) ==
    IF ~enabled THEN [found |-> FALSE, data |-> EmptyDict]
    ELSE IF failed \/ <<symbol, RowKey(date, data_type)>> \notin DOMAIN tbl
         THEN [found |-> FALSE, data |-> EmptyDict]
         ELSE LET entity == tbl[<<symbol, RowKey(date, data_type)>>]
              IN [found |-> TRUE,
                  data |-> ("1. buy price" :> Get(entity, "open")) @@ ("2. high" :> Get(entity, "high"))
                           @@ ("3. low" :> Get(entity, "low")) @@ ("4. sell price" :> Get(entity, "close"))
                           @@ ("5. volume" :> Get(entity, "volume"))]

SaveUnderPlainKey(enabled, tbl, symbol, date, ohlcv, data_type, failed) ==
    IF ~enabled \/ failed THEN [ok |-> FALSE, table |-> tbl]
    ELSE LET entity == ("open" :> Get(ohlcv, "1. buy price")) @@ ("high" :> Get(ohlcv, "2. high"))
                       @@ ("low" :> Get(ohlcv, "3. low")) @@ ("close" :> Get(ohlcv, "4. sell price"))
                       @@ ("volume" :> Get(ohlcv, "5. volume")) @@ ("dataType" :> data_type)
                       @@ ("timestamp" :> "utcnow")
         IN [ok |-> TRUE, table |-> (<<symbol, date>> :> entity) @@ tbl]

\* lines 216-236; failed: upsert_entity raised.  The store keeps the entity
\* it is given under (PartitionKey, RowKey).
_save_to_azure_table(enabled, tbl, symbol, date, ohlcv, data_type, failed) ==
    IF ~enabled \/ failed THEN [ok |-> FALSE, table |-> tbl]
    ELSE LET row_key == IF data_type = "hourly" THEN HourlyPrefix \o date ELSE date
             entity == ("open" :> Get(ohlcv, "1. buy price")) @@ ("high" :> Get(ohlcv, "2. high"))
                       @@ ("low" :> Get(ohlcv, "3. low")) @@ ("close" :> Get(ohlcv, "4. sell price"))
                       @@ ("volume" :> Get(ohlcv, "5. volume")) @@ ("dataType" :> data_type)
                       @@ ("timestamp" :> "utcnow")
         IN [ok |-> TRUE, table |-> (<<symbol, row_key>> :> entity) @@ tbl]

(***************************************************************************)
(* Response shaping.                                                       *)
(***************************************************************************)
NoOhlcv == EmptyDict

FormatLeakingHigh(symbol, date, day_data, is_today) ==
    [kind |-> "ohlcv", symbol |-> symbol, date |-> date, error |-> "", samples |-> <<>>,
     ohlcv |-> ("open" :> Get(day_data, "1. buy price"))
               @@ ("high" :> Get(day_data, "2. high"))
               @@ ("low" :> IF is_today THEN "You can not get the current low price" ELSE Get(day_data, "3. low"))
               @@ ("close" :> IF is_today THEN "You can not get the next close price" ELSE Get(day_data, "4. sell price"))
               @@ ("volume" :> IF is_today THEN "You can not get the current volume" ELSE Get(day_data, "5. volume"))]

_format_ohlcv_response(symbol, date, day_data, is_today) ==
    IF is_today
    THEN [kind |-> "ohlcv", symbol |-> symbol, date |-> date, error |-> "", samples |-> <<>>,
          ohlcv |-> ("open" :> Get(day_data, "1. buy price"))
                    @@ ("high" :> "You can not get the current high price")
                    @@ ("low" :> "You can not get the current low price")
                    @@ ("close" :> "You can not get the next close price")
                    @@ ("volume" :> "You can not get the current volume")]
    ELSE [kind |-> "ohlcv", symbol |-> symbol, date |-> date, error |-> "", samples |-> <<>>,
          ohlcv |-> ("open" :> Get(day_data, "1. buy price"))
                    @@ ("high" :> Get(day_data, "2. high"))
                    @@ ("low" :> Get(day_data, "3. low"))
                    @@ ("close" :> Get(day_data, "4. sell price"))
                    @@ ("volume" :> Get(day_data, "5. volume"))]

ErrorResult(msg, symbol, date, samples) ==
    [kind |-> "error", symbol |-> symbol, date |-> date, error |-> msg, samples |-> samples, ohlcv |-> NoOhlcv]

ErrDaily == "date must be in YYYY-MM-DD format"
ErrHourly == "date must be in YYYY-MM-DD HH:MM:SS format"
ErrNotFound == "Data not found for date {date}. Sample available dates: {available_dates}"
ErrNoRecords == "No records found for stock {symbol} in local data"

\* date == get_config_value("TODAY_DATE"); the configuration may hold no value
IsToday(date, today) == today.set /\ today.val = date

TodayValues == {[set |-> FALSE, val |-> <<>>], [set |-> TRUE, val |-> D1], [set |-> TRUE, val |-> H1]}


(***************************************************************************)
(* The state.                                                              *)
(*   files            the five source files on disk                        *)
(*   _PRICE_CACHE, _CACHE_LOADED, _CACHE_LOCK (0 free, else the holder)    *)
(*   _AZURE_ENABLED, table   the remote store and whether it is configured *)
(*   pc, op, ret, arg        each thread's position, the call it serves,   *)
(*                           where _ensure_cache_loaded returns to, and the*)
(*                           call's arguments                              *)
(*   loadPos                 the source the in-flight load pass is at      *)
(*   result                  what the thread's last call returned          *)
(*   budget, requests        the calls and source rewrites still to come,  *)
(*                           and the calls the clients make                *)
(*   trace, snap, loadPasses, resets, lastPut   history                    *)
(***************************************************************************)
VARIABLES files, _PRICE_CACHE, _CACHE_LOADED, _CACHE_LOCK, _AZURE_ENABLED, table,
          pc, op, ret, arg, loadPos, result, trace, snap, loadPasses, resets, budget, requests,
          lastPut

vars == <<files, _PRICE_CACHE, _CACHE_LOADED, _CACHE_LOCK, _AZURE_ENABLED, table,
          pc, op, ret, arg, loadPos, result, trace, snap, loadPasses, resets, budget, requests,
          lastPut>>

Threads == 1..NumThreads

SourceIds == 1..NumSources

NoResult == [kind |-> "none"]
Raised == [kind |-> "raised"]

NoArg == [symbol |-> "", date |-> <<>>, data_type |-> ""]

NotSeen == [present |-> FALSE, series |-> EmptyDict]

NoToday == [set |-> FALSE, val |-> <<>>]

NewTrace == [probed |-> FALSE, seen |-> NotSeen, gets |-> 0, outcome |-> "none", azure_data |-> EmptyDict,
             today |-> NoToday, passes |-> 0, disturbed |-> FALSE, repeat |-> FALSE,
             before |-> [symbols |-> 0, daily |-> 0, hourly |-> 0]]

AllMissing == [i \in SourceIds |-> Missing]

AddLine(fs, i, line) == [fs EXCEPT ![i] = File(Append(fs[i].lines, line))]

\* the source files hold at most n lines in all; a file without lines does not exist
RECURSIVE FilesUpTo(_)
FilesUpTo(n) == IF n = 0 THEN {AllMissing}
                ELSE LET P == FilesUpTo(n - 1)
                     IN P \cup {AddLine(fs, i, line) : fs \in P, i \in SourceIds, line \in Lines}

InitialFiles == FilesUpTo(MaxLines)

Request(kind, symbol, date) == [kind |-> kind, symbol |-> symbol, date |-> date]

Lookups == {Request("lookup", symbol, date) : symbol \in SymbolInputs, date \in DateInputs}

\* two daily sources that define the same key, and a source that ends in a
\* line the loader chokes on
Scenarios == {AddLine(AddLine(AllMissing, 1, Doc("X", DAILY, D1 :> BarA)), 3, Doc("X", DAILY, (D1 :> BarB) @@ (D2 :> BarN))),
              AddLine(AddLine(AllMissing, 1, Doc("X", DAILY, D1 :> BarA)), 1, NonDoc)}

\* at most one line in data/merged.jsonl and one in data/merged_hourly.jsonl
OneLine == {Missing} \cup {File(<<line>>) : line \in Lines}

LookupFiles == {[AllMissing EXCEPT ![1] = d, ![2] = h] : d \in OneLine, h \in OneLine}

NoPut == [n |-> 0, symbol |-> "", date |-> <<>>, ohlcv |-> EmptyDict, data_type |-> "", ok |-> FALSE]

InitShared ==
    /\ _PRICE_CACHE = EmptyCache
    /\ _CACHE_LOADED = FALSE
    /\ _CACHE_LOCK = 0
    /\ table = InitialTable
    /\ op = [t \in Threads |-> "none"]
    /\ ret = [t \in Threads |-> "none"]
    /\ arg = [t \in Threads |-> NoArg]
    /\ loadPos = 0
    /\ result = [t \in Threads |-> NoResult]
    /\ trace = [t \in Threads |-> NewTrace]
    /\ snap = files
    /\ loadPasses = 0
    /\ resets = 0
    /\ lastPut = NoPut

OneThread == [t \in Threads |-> IF t = 1 THEN "idle" ELSE "off"]

\* the cache is loaded once, from any sources of at most MaxLines lines
InitLoad ==
    /\ files \in InitialFiles
    /\ _AZURE_ENABLED = FALSE
    /\ pc = OneThread
    /\ budget = [calls |-> 1, rewrites |-> 0, puts |-> 0]
    /\ requests = {Request("ensure", "", <<>>)}
    /\ InitShared

\* one thread serves one call of any kind
InitLookup ==
    /\ files \in LookupFiles
    /\ _AZURE_ENABLED \in BOOLEAN
    /\ pc = OneThread
    /\ budget = [calls |-> 1, rewrites |-> 0, puts |-> 0]
    /\ requests = Lookups \cup {Request("stats", "", <<>>), Request("reset", "", <<>>)}
    /\ InitShared

\* NumThreads threads serve MaxCalls calls between them
InitThreads ==
    /\ files \in Scenarios
    /\ _AZURE_ENABLED = FALSE
    /\ pc = [t \in Threads |-> "idle"]
    /\ budget = [calls |-> MaxCalls, rewrites |-> 0, puts |-> 0]
    /\ requests = {Request("ensure", "", <<>>), Request("lookup", "X", D1),
                   Request("stats", "", <<>>), Request("reset", "", <<>>)}
    /\ InitShared

\* one thread loads and refreshes the cache while the sources are rewritten
InitRewrite ==
    /\ files \in Scenarios
    /\ _AZURE_ENABLED = FALSE
    /\ pc = OneThread
    /\ budget = [calls |-> MaxCalls, rewrites |-> MaxRewrites, puts |-> 0]
    /\ requests = {Request("ensure", "", <<>>), Request("reset", "", <<>>)}
    /\ InitShared

\* the store is written, then one thread looks up what only the store has
InitStore ==
    /\ files = AllMissing
    /\ _AZURE_ENABLED \in BOOLEAN
    /\ pc = OneThread
    /\ budget = [calls |-> MaxCalls, rewrites |-> 0, puts |-> MaxPuts]
    /\ requests = {Request("lookup", "Y", D1), Request("lookup", "Y", H1)}
    /\ InitShared

Init == InitLoad \/ InitLookup \/ InitThreads \/ InitRewrite \/ InitStore

(***************************************************************************)
(* Calls.                                                                  *)
(***************************************************************************)
\* the call repeats the thread's last call, which the remote store answered
Repeats(t, o, a) ==
    /\ op[t] = o
    /\ arg[t].symbol = a.symbol
    /\ arg[t].date = a.date
    /\ trace[t].outcome = "row"

Begin(t, o, a) ==
    /\ pc[t] \in {"idle", "done"}
    /\ Request(o, a.symbol, a.date) \in requests
    /\ budget.calls > 0
    /\ budget' = [budget EXCEPT !.calls = @ - 1]
    /\ op' = [op EXCEPT ![t] = o]
    /\ arg' = [arg EXCEPT ![t] = a]
    /\ trace' = [trace EXCEPT ![t] = [NewTrace EXCEPT !.repeat = Repeats(t, o, a)]]

IsHourlyTextBlankOnly(date) == Contains(date, " ")

\* the detection of lines 304-307
IsHourlyText(date) == Contains(date, " ") \/ Contains(date, "T")

\* lines 320-326 / 366-372: validate, then go on to _ensure_cache_loaded
Validated(t, symbol, date, data_type) ==
    IF data_type = "daily"
    THEN IF _validate_date_daily(date)
         THEN [pc |-> "E_check", ret |-> "probe", result |-> NoResult]
         ELSE [pc |-> "done", ret |-> "none", result |-> ErrorResult(ErrDaily, symbol, date, <<>>)]
    ELSE IF _validate_date_hourly(date)
         THEN [pc |-> "E_check", ret |-> "probe", result |-> NoResult]
         ELSE [pc |-> "done", ret |-> "none", result |-> ErrorResult(ErrHourly, symbol, date, <<>>)]

\* a direct call of _ensure_cache_loaded (the startup pre-load, line 459)
CallEnsure(t) ==
    /\ Begin(t, "ensure", NoArg)
    /\ pc' = [pc EXCEPT ![t] = "E_check"]
    /\ ret' = [ret EXCEPT ![t] = "return"]
    /\ result' = [result EXCEPT ![t] = NoResult]
    /\ UNCHANGED <<files, _PRICE_CACHE, _CACHE_LOADED, _CACHE_LOCK, _AZURE_ENABLED, table, lastPut,
                   loadPos, snap, loadPasses, resets, requests>>

\* get_price_local: line 301 comes first
get_price_local(t, symbol, date) ==
    /\ Begin(t, "lookup", [symbol |-> symbol, date |-> date, data_type |-> ""])
    /\ pc' = [pc EXCEPT ![t] = "E_check"]
    /\ ret' = [ret EXCEPT ![t] = "detect"]
    /\ result' = [result EXCEPT ![t] = NoResult]
    /\ UNCHANGED <<files, _PRICE_CACHE, _CACHE_LOADED, _CACHE_LOCK, _AZURE_ENABLED, table, lastPut,
                   loadPos, snap, loadPasses, resets, requests>>

\* get_cache_stats: line 422 comes first
get_cache_stats(t) ==
    /\ Begin(t, "stats", NoArg)
    /\ pc' = [pc EXCEPT ![t] = "E_check"]
    /\ ret' = [ret EXCEPT ![t] = "stats"]
    /\ result' = [result EXCEPT ![t] = NoResult]
    /\ UNCHANGED <<files, _PRICE_CACHE, _CACHE_LOADED, _CACHE_LOCK, _AZURE_ENABLED, table, lastPut,
                   loadPos, snap, loadPasses, resets, requests>>

\* refresh_cache: goes for the lock first
refresh_cache(t) ==
    /\ Begin(t, "reset", NoArg)
    /\ pc' = [pc EXCEPT ![t] = "R_lock"]
    /\ ret' = [ret EXCEPT ![t] = "refresh"]
    /\ result' = [result EXCEPT ![t] = NoResult]
    /\ UNCHANGED <<files, _PRICE_CACHE, _CACHE_LOADED, _CACHE_LOCK, _AZURE_ENABLED, table, lastPut,
                   loadPos, snap, loadPasses, resets, requests>>

(***************************************************************************)
(* _ensure_cache_loaded, step by step.                                     *)
(***************************************************************************)
\* where a thread goes when _ensure_cache_loaded returns to its caller
Return(t) ==
    CASE ret[t] = "return" -> [pc |-> "done", ret |-> "none", data_type |-> "", result |-> NoResult]
      [] ret[t] = "detect" ->
            LET dt == IF IsHourlyText(arg[t].date) THEN "hourly" ELSE "daily"
                v == Validated(t, arg[t].symbol, arg[t].date, dt)
            IN [pc |-> v.pc, ret |-> v.ret, data_type |-> dt, result |-> v.result]
      [] ret[t] = "probe" -> [pc |-> "probe", ret |-> "none", data_type |-> arg[t].data_type, result |-> NoResult]
      [] ret[t] = "refresh" -> [pc |-> "E_check", ret |-> "stats", data_type |-> "", result |-> NoResult]
      [] ret[t] = "stats" -> [pc |-> "stats", ret |-> "none", data_type |-> "", result |-> NoResult]

DoReturn(t) ==
    LET r == Return(t)
    IN /\ pc' = [pc EXCEPT ![t] = r.pc]
       /\ ret' = [ret EXCEPT ![t] = r.ret]
       /\ arg' = [arg EXCEPT ![t].data_type = r.data_type]
       /\ result' = [result EXCEPT ![t] = r.result]

\* line 102: the check without the lock
EnsureCheck(t) ==
    /\ pc[t] = "E_check"
    /\ IF _CACHE_LOADED
       THEN DoReturn(t)
       ELSE /\ pc' = [pc EXCEPT ![t] = "E_lock"]
            /\ UNCHANGED <<ret, arg, result>>
    /\ UNCHANGED <<files, _PRICE_CACHE, _CACHE_LOADED, _CACHE_LOCK, _AZURE_ENABLED, table, lastPut,
                   op, loadPos, trace, snap, loadPasses, resets, budget, requests>>

EnsureAcquireNoLock(t) ==
    /\ pc[t] = "E_lock"
    /\ _CACHE_LOCK' = t
    /\ pc' = [pc EXCEPT ![t] = "E_recheck"]
    /\ UNCHANGED <<files, _PRICE_CACHE, _CACHE_LOADED, _AZURE_ENABLED, table, lastPut,
                   op, ret, arg, loadPos, result, trace, snap, loadPasses, resets, budget, requests>>

\* line 105: with _CACHE_LOCK
EnsureAcquire(t) ==
    /\ pc[t] = "E_lock"
    /\ _CACHE_LOCK = 0
    /\ _CACHE_LOCK' = t
    /\ pc' = [pc EXCEPT ![t] = "E_recheck"]
    /\ UNCHANGED <<files, _PRICE_CACHE, _CACHE_LOADED, _AZURE_ENABLED, table, lastPut,
                   op, ret, arg, loadPos, result, trace, snap, loadPasses, resets, budget, requests>>

\* lines 106-112: the check under the lock; a load pass starts if it fails
EnsureRecheck(t) ==
    /\ pc[t] = "E_recheck"
    /\ IF _CACHE_LOADED
       THEN /\ DoReturn(t)
            /\ _CACHE_LOCK' = 0
            /\ UNCHANGED <<loadPos, trace, snap, loadPasses>>
       ELSE /\ pc' = [pc EXCEPT ![t] = "E_load"]
            /\ loadPos' = 1
            /\ loadPasses' = loadPasses + 1
            /\ snap' = files
            /\ trace' = [trace EXCEPT ![t].passes = @ + 1]
            /\ UNCHANGED <<_CACHE_LOCK, ret, arg, result>>
    /\ UNCHANGED <<files, _PRICE_CACHE, _CACHE_LOADED, _AZURE_ENABLED, table, lastPut, op, resets, budget, requests>>

\* lines 114-142: one source of the pass; an exception of the loader leaves
\* the with block, which releases the lock, and ends the thread's call
EnsureLoad(t) ==
    /\ pc[t] = "E_load"
    /\ LET r == LoadSource(_PRICE_CACHE, files, loadPos)
       IN /\ _PRICE_CACHE' = r.cache
          /\ IF r.raised
             THEN /\ pc' = [pc EXCEPT ![t] = "done"]
                  /\ ret' = [ret EXCEPT ![t] = "none"]
                  /\ result' = [result EXCEPT ![t] = Raised]
                  /\ _CACHE_LOCK' = 0
                  /\ loadPos' = 0
             ELSE /\ pc' = [pc EXCEPT ![t] = IF loadPos = NumSources THEN "E_mark" ELSE "E_load"]
                  /\ loadPos' = IF loadPos = NumSources THEN 0 ELSE loadPos + 1
                  /\ UNCHANGED <<ret, result, _CACHE_LOCK>>
    /\ UNCHANGED <<files, _CACHE_LOADED, _AZURE_ENABLED, table, lastPut, op, arg, trace, snap,
                   loadPasses, resets, budget, requests>>

\* lines 144-145: _CACHE_LOADED = True, then the with block ends
EnsureMark(t) ==
    /\ pc[t] = "E_mark"
    /\ _CACHE_LOADED' = TRUE
    /\ _CACHE_LOCK' = 0
    /\ DoReturn(t)
    /\ UNCHANGED <<files, _PRICE_CACHE, _AZURE_ENABLED, table, lastPut, op, loadPos, trace, snap,
                   loadPasses, resets, budget, requests>>


(***************************************************************************)
(* The lookups after _ensure_cache_loaded.                                 *)
(***************************************************************************)
Finish(t, res) ==
    /\ pc' = [pc EXCEPT ![t] = "done"]
    /\ result' = [result EXCEPT ![t] = res]

\* lines 329-347 / 375-393: the probe of the index.  symbol_data and its
\* series are read in this one step.
Probe(t) ==
    /\ pc[t] = "probe"
    /\ LET symbol == arg[t].symbol
           date == arg[t].date
           present == symbol \in DOMAIN _PRICE_CACHE.rec
           series == IF present THEN _PRICE_CACHE.rec[symbol][arg[t].data_type] ELSE EmptyDict
           day_data == IF date \in DOMAIN series THEN series[date] ELSE EmptyDict
           available_dates == Take(SortedDesc(DOMAIN series), SampleSize)
           seen == [present |-> present, series |-> series]
       IN IF present /\ date \in DOMAIN series /\ Truthy(day_data)
          THEN \E today \in TodayValues :
                  /\ Finish(t, _format_ohlcv_response(symbol, date, day_data, IsToday(date, today)))
                  /\ trace' = [trace EXCEPT ![t].probed = TRUE, ![t].seen = seen, ![t].today = today]
          ELSE /\ trace' = [trace EXCEPT ![t].probed = TRUE, ![t].seen = seen]
               /\ IF present /\ available_dates # <<>>
                  THEN Finish(t, ErrorResult(ErrNotFound, symbol, date, available_dates))
                  ELSE IF _AZURE_ENABLED
                       THEN /\ pc' = [pc EXCEPT ![t] = "remote"]
                            /\ UNCHANGED result
                       ELSE Finish(t, ErrorResult(ErrNoRecords, symbol, date, <<>>))
    /\ UNCHANGED <<files, _PRICE_CACHE, _CACHE_LOADED, _CACHE_LOCK, _AZURE_ENABLED, table, lastPut,
                   op, ret, arg, loadPos, snap, loadPasses, resets, budget, requests>>

AzureGetPropagates(t) ==
    /\ pc[t] = "remote"
    /\ \E failed \in BOOLEAN :
          LET symbol == arg[t].symbol
              date == arg[t].date
              r == _get_from_azure_table(_AZURE_ENABLED, table, symbol, date, arg[t].data_type, failed)
              outcome == IF failed THEN "failed" ELSE IF r.found THEN "row" ELSE "absent"
          IN IF r.found /\ Truthy(r.data)
             THEN \E today \in TodayValues :
                     /\ Finish(t, _format_ohlcv_response(symbol, date, r.data, IsToday(date, today)))
                     /\ trace' = [trace EXCEPT ![t].gets = @ + 1, ![t].outcome = outcome,
                                               ![t].azure_data = r.data, ![t].today = today]
             ELSE /\ Finish(t, IF failed THEN Raised ELSE ErrorResult(ErrNoRecords, symbol, date, <<>>))
                  /\ trace' = [trace EXCEPT ![t].gets = @ + 1, ![t].outcome = outcome]
    /\ UNCHANGED <<files, _PRICE_CACHE, _CACHE_LOADED, _CACHE_LOCK, _AZURE_ENABLED, table, lastPut,
                   op, ret, arg, loadPos, snap, loadPasses, resets, budget, requests>>

AzureGetCaching(t) ==
    /\ pc[t] = "remote"
    /\ \E failed \in BOOLEAN :
          LET symbol == arg[t].symbol
              date == arg[t].date
              r == _get_from_azure_table(_AZURE_ENABLED, table, symbol, date, arg[t].data_type, failed)
              outcome == IF failed THEN "failed" ELSE IF r.found THEN "row" ELSE "absent"
              created == IF symbol \in DOMAIN _PRICE_CACHE.rec THEN _PRICE_CACHE
                         ELSE [keys |-> Append(_PRICE_CACHE.keys, symbol),
                               rec |-> _PRICE_CACHE.rec @@ (symbol :> [daily |-> EmptyDict, hourly |-> EmptyDict, meta |-> EmptyDict])]
          IN IF r.found /\ Truthy(r.data)
             THEN \E today \in TodayValues :
                     /\ Finish(t, _format_ohlcv_response(symbol, date, r.data, IsToday(date, today)))
                     /\ trace' = [trace EXCEPT ![t].gets = @ + 1, ![t].outcome = outcome,
                                               ![t].azure_data = r.data, ![t].today = today]
                     /\ _PRICE_CACHE' = [created EXCEPT !.rec[symbol][arg[t].data_type] = Update(@, date :> r.data)]
             ELSE /\ Finish(t, ErrorResult(ErrNoRecords, symbol, date, <<>>))
                  /\ trace' = [trace EXCEPT ![t].gets = @ + 1, ![t].outcome = outcome]
                  /\ UNCHANGED _PRICE_CACHE
    /\ UNCHANGED <<files, _CACHE_LOADED, _CACHE_LOCK, _AZURE_ENABLED, table, lastPut,
                   op, ret, arg, loadPos, snap, loadPasses, resets, budget, requests>>

\* lines 348-353 / 394-399: the query of the remote store; it may fail
AzureGet(t) ==
    /\ pc[t] = "remote"
    /\ \E failed \in BOOLEAN :
          LET symbol == arg[t].symbol
              date == arg[t].date
              r == _get_from_azure_table(_AZURE_ENABLED, table, symbol, date, arg[t].data_type, failed)
              outcome == IF failed THEN "failed" ELSE IF r.found THEN "row" ELSE "absent"
          IN IF r.found /\ Truthy(r.data)
             THEN \E today \in TodayValues :
                     /\ Finish(t, _format_ohlcv_response(symbol, date, r.data, IsToday(date, today)))
                     /\ trace' = [trace EXCEPT ![t].gets = @ + 1, ![t].outcome = outcome,
                                               ![t].azure_data = r.data, ![t].today = today]
             ELSE /\ Finish(t, ErrorResult(ErrNoRecords, symbol, date, <<>>))
                  /\ trace' = [trace EXCEPT ![t].gets = @ + 1, ![t].outcome = outcome]
    /\ UNCHANGED <<files, _PRICE_CACHE, _CACHE_LOADED, _CACHE_LOCK, _AZURE_ENABLED, table, lastPut,
                   op, ret, arg, loadPos, snap, loadPasses, resets, budget, requests>>

(***************************************************************************)
(* Statistics and refresh.                                                 *)
(***************************************************************************)
RECURSIVE Entries(_, _, _)
Entries(cache, keys, cache_type) ==
    IF keys = <<>> THEN 0
    ELSE Cardinality(DOMAIN cache.rec[Head(keys)][cache_type]) + Entries(cache, Tail(keys), cache_type)

EntryCounts(cache) ==
    [symbols |-> Len(cache.keys), daily |-> Entries(cache, cache.keys, "daily"),
     hourly |-> Entries(cache, cache.keys, "hourly")]

\* lines 424-434
StatsOf(cache, loaded, enabled) ==
    [kind |-> "stats",
     cache_loaded |-> loaded,
     total_symbols |-> Len(cache.keys),
     total_daily_entries |-> Entries(cache, cache.keys, "daily"),
     total_hourly_entries |-> Entries(cache, cache.keys, "hourly"),
     azure_enabled |-> enabled,
     symbols |-> Take(cache.keys, SymbolSample)]

Stats(t) ==
    /\ pc[t] = "stats"
    /\ Finish(t, StatsOf(_PRICE_CACHE, _CACHE_LOADED, _AZURE_ENABLED))
    /\ UNCHANGED <<files, _PRICE_CACHE, _CACHE_LOADED, _CACHE_LOCK, _AZURE_ENABLED, table, lastPut,
                   op, ret, arg, loadPos, trace, snap, loadPasses, resets, budget, requests>>

\* line 445: with _CACHE_LOCK
RefreshAcquire(t) ==
    /\ pc[t] = "R_lock"
    /\ _CACHE_LOCK = 0
    /\ _CACHE_LOCK' = t
    /\ pc' = [pc EXCEPT ![t] = "R_clear"]
    /\ UNCHANGED <<files, _PRICE_CACHE, _CACHE_LOADED, _AZURE_ENABLED, table, lastPut,
                   op, ret, arg, loadPos, result, trace, snap, loadPasses, resets, budget, requests>>

InRefresh(u) == op[u] = "reset" /\ pc[u] \notin {"done", "R_lock", "R_clear"}

RefreshClearFlagOnly(t) ==
    /\ pc[t] = "R_clear"
    /\ _CACHE_LOADED' = FALSE
    /\ _CACHE_LOCK' = 0
    /\ resets' = resets + 1
    /\ pc' = [pc EXCEPT ![t] = "E_check"]
    /\ trace' = [u \in Threads |->
                    IF u = t THEN [trace[u] EXCEPT !.before = EntryCounts(_PRICE_CACHE)]
                    ELSE IF InRefresh(u) THEN [trace[u] EXCEPT !.disturbed = TRUE] ELSE trace[u]]
    /\ UNCHANGED <<files, _PRICE_CACHE, _AZURE_ENABLED, table, lastPut, op, ret, arg, loadPos, result, snap, loadPasses, budget, requests>>

\* lines 446-449: clear, _CACHE_LOADED = False, the with block ends, and
\* the thread goes on to _ensure_cache_loaded
RefreshClear(t) ==
    /\ pc[t] = "R_clear"
    /\ _PRICE_CACHE' = EmptyCache
    /\ _CACHE_LOADED' = FALSE
    /\ _CACHE_LOCK' = 0
    /\ resets' = resets + 1
    /\ pc' = [pc EXCEPT ![t] = "E_check"]
    /\ trace' = [u \in Threads |->
                    IF u = t THEN [trace[u] EXCEPT !.before = EntryCounts(_PRICE_CACHE)]
                    ELSE IF InRefresh(u) THEN [trace[u] EXCEPT !.disturbed = TRUE] ELSE trace[u]]
    /\ UNCHANGED <<files, _AZURE_ENABLED, table, lastPut, op, ret, arg, loadPos, result, snap, loadPasses, budget, requests>>

(***************************************************************************)
(* The environment rewrites a source file.  Only a load pass reads the     *)
(* files, so the rewrite is placed between the threads' calls.             *)
(***************************************************************************)
Rewritten == {Missing, File(<<>>), File(<<Doc("X", DAILY, D2 :> BarA)>>)}

RewriteSource(i, content) ==
    /\ budget.rewrites > 0
    /\ \A t \in Threads : pc[t] \in {"idle", "done", "off"}
    /\ files[i] # content
    /\ files' = [files EXCEPT ![i] = content]
    /\ budget' = [budget EXCEPT !.rewrites = @ - 1]
    /\ UNCHANGED <<_PRICE_CACHE, _CACHE_LOADED, _CACHE_LOCK, _AZURE_ENABLED, table, lastPut,
                   pc, op, ret, arg, loadPos, result, trace, snap, loadPasses, resets, requests>>

(***************************************************************************)
(* The administrative write path puts a bar into the remote store; it does *)
(* so before the threads serve calls.                                      *)
(***************************************************************************)
Granularities == {"daily", "hourly"}

PutSymbols == {"Y"}
PutDates == {D1, H1}
PutBars == {BarA, BarB}

Put(symbol, date, ohlcv, data_type) ==
    /\ budget.puts > 0
    /\ \A t \in Threads : pc[t] \in {"idle", "off"}
    /\ \E failed \in BOOLEAN :
          LET r == _save_to_azure_table(_AZURE_ENABLED, table, symbol, date, ohlcv, data_type, failed)
          IN /\ table' = r.table
             /\ lastPut' = [n |-> lastPut.n + 1, symbol |-> symbol, date |-> date, ohlcv |-> ohlcv,
                            data_type |-> data_type, ok |-> r.ok]
    /\ budget' = [budget EXCEPT !.puts = @ - 1]
    /\ UNCHANGED <<files, _PRICE_CACHE, _CACHE_LOADED, _CACHE_LOCK, _AZURE_ENABLED,
                   pc, op, ret, arg, loadPos, result, trace, snap, loadPasses, resets, requests>>

Next ==
    \/ \E t \in Threads : CallEnsure(t)
    \/ \E t \in Threads : \E symbol \in SymbolInputs : \E date \in DateInputs : get_price_local(t, symbol, date)
    \/ \E t \in Threads : get_cache_stats(t)
    \/ \E t \in Threads : refresh_cache(t)
    \/ \E t \in Threads : EnsureCheck(t)
    \/ \E t \in Threads : EnsureAcquire(t)
    \/ \E t \in Threads : EnsureRecheck(t)
    \/ \E t \in Threads : EnsureLoad(t)
    \/ \E t \in Threads : EnsureMark(t)
    \/ \E t \in Threads : Probe(t)
    \/ \E t \in Threads : AzureGet(t)
    \/ \E t \in Threads : Stats(t)
    \/ \E t \in Threads : RefreshAcquire(t)
    \/ \E t \in Threads : RefreshClear(t)
    \/ \E i \in SourceIds : \E content \in Rewritten : RewriteSource(i, content)
    \/ \E symbol \in PutSymbols : \E date \in PutDates : \E ohlcv \in PutBars :
          \E data_type \in Granularities : Put(symbol, date, ohlcv, data_type)

Spec == Init /\ [][Next]_vars

\* the steps a thread takes by itself once it serves a call
ThreadStep(t) ==
    \/ EnsureCheck(t) \/ EnsureAcquire(t) \/ EnsureRecheck(t) \/ EnsureLoad(t) \/ EnsureMark(t)
    \/ Probe(t) \/ AzureGet(t) \/ Stats(t) \/ RefreshAcquire(t) \/ RefreshClear(t)

\* every thread that can take a step eventually takes one; the calls are
\* finitely many, so a thread that waits for the lock finds it free for good
FairSpec == Init /\ [][Next]_vars /\ \A t \in Threads : WF_vars(ThreadStep(t))


(***************************************************************************)
(* Properties.                                                             *)
(***************************************************************************)
Done(t) == pc[t] = "done"

\* every key of every series of d is a key of the same series of c
Covers(c, d) ==
    \A symbol \in DOMAIN d.rec :
        /\ symbol \in DOMAIN c.rec
        /\ \A g \in Granularities : DOMAIN d.rec[symbol][g] \subseteq DOMAIN c.rec[symbol][g]

\* C1: with no reset, however the calls of _ensure_cache_loaded interleave,
\* the load pass over the sources runs exactly once, and once every call has
\* returned the cache is what one load of the sources produces.
C1_LoadsExactlyOnce ==
    resets = 0 =>
        /\ loadPasses <= 1
        /\ (\A t \in Threads : pc[t] \in {"done", "off"}) =>
              /\ loadPasses = 1
              /\ _PRICE_CACHE = FreshLoad(snap).cache

\* C2: a caller that is past _ensure_cache_loaded and about to probe the
\* cache finds in it every record of every source of the last load, also
\* while refresh_cache runs in another thread.
C2_ProbeSeesWholeIndex ==
    \A t \in Threads : pc[t] = "probe" => Covers(_PRICE_CACHE, FreshLoad(snap).cache)

\* the lookup of thread t probed the cache, found the symbol and did not find the key
KeyMiss(t) ==
    /\ op[t] = "lookup"
    /\ trace[t].probed
    /\ trace[t].seen.present
    /\ arg[t].date \notin DOMAIN trace[t].seen.series

\* C3: a lookup of a symbol that is in the cache, for a key that is not in
\* its series of the requested granularity, does not go to the remote store
\* and returns the not-found error with sample keys.
C3_KeyMissStaysLocal ==
    \A t \in Threads :
        KeyMiss(t) =>
            /\ pc[t] # "remote"
            /\ trace[t].gets = 0
            /\ Done(t) => /\ result[t].kind = "error"
                          /\ result[t].error = ErrNotFound

OhlcvOf(bar) ==
    ("open" :> Get(bar, "1. buy price")) @@ ("high" :> Get(bar, "2. high")) @@ ("low" :> Get(bar, "3. low"))
    @@ ("close" :> Get(bar, "4. sell price")) @@ ("volume" :> Get(bar, "5. volume"))

\* the lookup of thread t probed the cache and the key was in the symbol's series
KeyStored(t) ==
    /\ op[t] = "lookup"
    /\ trace[t].probed
    /\ trace[t].seen.present
    /\ arg[t].date \in DOMAIN trace[t].seen.series

\* C4: a lookup of a symbol and key that the loader has put in the cache
\* returns an ohlcv payload with the five fields of the stored bar.
C4_StoredKeyIsReturned ==
    \A t \in Threads :
        Done(t) /\ KeyStored(t) =>
            /\ result[t].kind = "ohlcv"
            /\ result[t].ohlcv = OhlcvOf(trace[t].seen.series[arg[t].date])

FormatError(t) ==
    /\ op[t] = "lookup"
    /\ Done(t)
    /\ result[t].kind = "error"
    /\ result[t].error \in {ErrDaily, ErrHourly}

\* C5: a lookup through get_price_local whose date fails validation returns
\* the format error without a load pass, a probe of the cache or a query of
\* the remote store.
C5_FormatErrorTouchesNothing ==
    \A t \in Threads :
        FormatError(t) => trace[t].passes = 0 /\ ~trace[t].probed /\ trace[t].gets = 0


(***************************************************************************)
(* The last writer of a key, read off the source files.                    *)
(***************************************************************************)
SourcesOf(g) == {i \in SourceIds : Sources[i].cache_type = g}

\* line j of source i is a document of the symbol whose series has the key
DefinesAt(fs, i, j, symbol, key) ==
    LET line == fs[i].lines[j]
    IN /\ line.kind = "doc"
       /\ Get(line.meta, "2. Symbol") = symbol
       /\ Sources[i].series_key \in DOMAIN line.fields
       /\ key \in DOMAIN line.fields[Sources[i].series_key]

Writers(fs, g, symbol, key) ==
    UNION {{<<i, j>> : j \in {n \in 1..Len(fs[i].lines) : DefinesAt(fs, i, n, symbol, key)}} : i \in SourcesOf(g)}

Later(p, q) == p[1] > q[1] \/ (p[1] = q[1] /\ p[2] > q[2])

LastWriter(fs, g, symbol, key) ==
    CHOOSE p \in Writers(fs, g, symbol, key) : \A q \in Writers(fs, g, symbol, key) : q = p \/ Later(p, q)

BarAt(fs, p, key) == fs[p[1]].lines[p[2]].fields[Sources[p[1]].series_key][key]

\* the load is over and no thread is inside the locked section
Settled == _CACHE_LOADED /\ _CACHE_LOCK = 0

\* C6: after the load, every key that some source of a granularity defines
\* for a symbol is in the symbol's series of that granularity, with the bar
\* of the last source (in the fixed order) that defines it.
C6_LastSourceWins ==
    Settled =>
        \A symbol \in SymbolInputs : \A g \in Granularities : \A key \in DateInputs :
            Writers(snap, g, symbol, key) # {} =>
                /\ symbol \in DOMAIN _PRICE_CACHE.rec
                /\ key \in DOMAIN _PRICE_CACHE.rec[symbol][g]
                /\ _PRICE_CACHE.rec[symbol][g][key] = BarAt(snap, LastWriter(snap, g, symbol, key), key)

\* two sources define one key with different bars, and a key comes from one source only
C6_Witness ==
    /\ Settled
    /\ \E symbol \in SymbolInputs : \E g \in Granularities : \E key \in DateInputs :
          \E p \in Writers(snap, g, symbol, key) : \E q \in Writers(snap, g, symbol, key) :
              /\ p[1] < q[1]
              /\ BarAt(snap, p, key) # BarAt(snap, q, key)
              /\ _PRICE_CACHE.rec[symbol][g][key] = BarAt(snap, q, key)
              /\ \E other \in DateInputs : Cardinality(Writers(snap, g, symbol, other)) = 1

\* the bar a successful lookup resolved: from the cache, or from the remote store
Resolved(t) == IF trace[t].outcome = "row" THEN trace[t].azure_data
               ELSE trace[t].seen.series[arg[t].date]

Success(t) == Done(t) /\ op[t] = "lookup" /\ result[t].kind = "ohlcv"

Redacted(bar) ==
    ("open" :> Get(bar, "1. buy price")) @@ ("high" :> "You can not get the current high price")
    @@ ("low" :> "You can not get the current low price") @@ ("close" :> "You can not get the next close price")
    @@ ("volume" :> "You can not get the current volume")

\* C7: a successful lookup whose date equals the TODAY_DATE it read carries
\* the bar's open and the four placeholders; any other successful lookup
\* carries the five fields of the bar, nulls included.
C7_Redaction ==
    \A t \in Threads :
        Success(t) =>
            /\ result[t].symbol = arg[t].symbol
            /\ result[t].date = arg[t].date
            /\ result[t].ohlcv = IF trace[t].today.set /\ trace[t].today.val = arg[t].date
                                 THEN Redacted(Resolved(t))
                                 ELSE OhlcvOf(Resolved(t))

\* a lookup of today's date came back with the bar's high, low, close and volume hidden
C7_Witness ==
    \E t \in Threads :
        /\ Success(t)
        /\ trace[t].today.set
        /\ trace[t].today.val = arg[t].date
        /\ Get(Resolved(t), "2. high") # PyNone
        /\ result[t].ohlcv["high"] # Get(Resolved(t), "2. high")

\* the row key of the remote store's schema
SchemaRowKey(t) == IF arg[t].data_type = "hourly" THEN HourlyPrefix \o arg[t].date ELSE arg[t].date

RemoteRow(t) == table[<<arg[t].symbol, SchemaRowKey(t)>>]

RemoteBar(row) ==
    ("1. buy price" :> Get(row, "open")) @@ ("2. high" :> Get(row, "high")) @@ ("3. low" :> Get(row, "low"))
    @@ ("4. sell price" :> Get(row, "close")) @@ ("5. volume" :> Get(row, "volume"))

\* the probe of thread t did not find the symbol in the cache
SymbolMiss(t) == op[t] = "lookup" /\ trace[t].probed /\ ~trace[t].seen.present

\* C8: the remote store is queried only after the probe of the cache has
\* missed; with the store enabled, a lookup of a symbol that is not in the
\* cache, for a key the store holds a row for, returns the row's fields
\* (redacted for today's date); with the store disabled nothing is queried
\* and such a lookup ends in the no-records error.
C8_RemoteFallback ==
    \A t \in Threads :
        /\ (pc[t] = "remote" \/ trace[t].gets > 0) =>
              /\ _AZURE_ENABLED
              /\ trace[t].probed
              /\ ~(trace[t].seen.present /\ arg[t].date \in DOMAIN trace[t].seen.series
                     /\ Truthy(trace[t].seen.series[arg[t].date]))
        /\ (Done(t) /\ SymbolMiss(t) /\ _AZURE_ENABLED /\ trace[t].outcome # "failed"
              /\ <<arg[t].symbol, SchemaRowKey(t)>> \in DOMAIN table) =>
              /\ result[t].kind = "ohlcv"
              /\ result[t].ohlcv = IF trace[t].today.set /\ trace[t].today.val = arg[t].date
                                   THEN Redacted(RemoteBar(RemoteRow(t)))
                                   ELSE OhlcvOf(RemoteBar(RemoteRow(t)))
        /\ (Done(t) /\ SymbolMiss(t) /\ ~_AZURE_ENABLED) =>
              result[t] = ErrorResult(ErrNoRecords, arg[t].symbol, arg[t].date, <<>>)

\* an hourly lookup of a symbol that is not in the cache returned the remote row
C8_Witness ==
    \E t \in Threads :
        /\ Done(t)
        /\ SymbolMiss(t)
        /\ arg[t].data_type = "hourly"
        /\ trace[t].outcome = "row"
        /\ result[t].kind = "ohlcv"
        /\ result[t].ohlcv["open"] = RemoteRow(t)["open"]

\* C9: when refresh_cache returns its statistics, and no other refresh ran
\* meanwhile, they report a loaded cache and the symbol, daily-entry and
\* hourly-entry counts of a load of the current sources into an empty cache.
C9_RefreshThenStats ==
    [][\A t \in Threads :
          (op[t] = "reset" /\ pc[t] = "stats" /\ pc'[t] = "done" /\ ~trace[t].disturbed) =>
              /\ result'[t].kind = "stats"
              /\ result'[t].cache_loaded
              /\ result'[t].total_symbols = Len(FreshLoad(files).cache.keys)
              /\ result'[t].total_daily_entries = EntryCounts(FreshLoad(files).cache).daily
              /\ result'[t].total_hourly_entries = EntryCounts(FreshLoad(files).cache).hourly]_vars

\* a refresh returned fewer daily entries than the cache held before it
C9_Witness ==
    \E t \in Threads :
        /\ Done(t)
        /\ op[t] = "reset"
        /\ result[t].kind = "stats"
        /\ ~trace[t].disturbed
        /\ result[t].total_daily_entries > 0
        /\ result[t].total_daily_entries < trace[t].before.daily

\* C10: a lookup that went to the remote store and found it failing, or the
\* row absent, ends in the same no-records error; nothing is raised and the
\* store is queried once.
C10_FailureIsAbsence ==
    \A t \in Threads :
        /\ trace[t].gets <= 1
        /\ (Done(t) /\ trace[t].outcome \in {"failed", "absent"}) =>
              result[t] = ErrorResult(ErrNoRecords, arg[t].symbol, arg[t].date, <<>>)

\* a lookup whose remote row exists met a failing store
C10_Witness ==
    \E t \in Threads :
        /\ Done(t)
        /\ trace[t].outcome = "failed"
        /\ trace[t].gets = 1
        /\ <<arg[t].symbol, SchemaRowKey(t)>> \in DOMAIN table

\* C11: every lookup that ends returns a mapping that echoes the requested
\* symbol and date and carries either an ohlcv payload or an error message,
\* whatever the source files hold and however the remote store behaves;
\* nothing is raised to the caller.
C11_LookupAlwaysAnswers ==
    \A t \in Threads :
        (Done(t) /\ op[t] = "lookup") =>
            /\ result[t].kind \in {"ohlcv", "error"}
            /\ result[t].symbol = arg[t].symbol
            /\ result[t].date = arg[t].date
            /\ (result[t].kind = "ohlcv") = (result[t].error = "")

\* C12: the load passes started are at most one more than the resets that
\* have cleared the cache.
C12_OnePassPerReset == loadPasses <= 1 + resets

\* the positions inside `with _CACHE_LOCK`, and those that write
Locked == {"E_recheck", "E_load", "E_mark", "R_clear"}

Writing == {"E_load", "E_mark", "R_clear"}

\* C13: every step that changes the cache or the loaded flag is taken by the
\* thread that holds the lock; at most one thread is inside the locked
\* section, and a load pass starts only from the re-check of the flag under
\* the lock.
C13_WritesUnderLock ==
    [][/\ \A t \in Threads : \A u \in Threads :
             (pc'[t] \in Locked /\ pc'[u] \in Locked) => t = u
       /\ \A t \in Threads : pc'[t] \in Locked => _CACHE_LOCK' = t
       /\ (_PRICE_CACHE' # _PRICE_CACHE \/ _CACHE_LOADED' # _CACHE_LOADED) =>
             \E t \in Threads : /\ _CACHE_LOCK = t
                                /\ pc[t] \in Writing
                                /\ \A u \in Threads \ {t} : pc'[u] = pc[u]
       /\ \A t \in Threads :
             (pc'[t] = "E_load" /\ pc[t] # "E_load") =>
                 pc[t] = "E_recheck" /\ _CACHE_LOCK = t /\ ~_CACHE_LOADED
       /\ loadPasses' # loadPasses =>
             \E t \in Threads : pc[t] = "E_recheck" /\ ~_CACHE_LOADED /\ pc'[t] = "E_load"]_vars

\* a thread is loading under the lock while another one waits for the lock
C13_Witness ==
    \E t \in Threads : \E u \in Threads :
        /\ pc[t] = "E_load"
        /\ _CACHE_LOCK = t
        /\ _PRICE_CACHE # EmptyCache
        /\ pc[u] \in {"E_lock", "R_lock"}

InCall(t) == pc[t] \notin {"idle", "done", "off"}

\* C14: under fair scheduling every call that has started eventually ends,
\* it ends by returning to its caller and not in an exception, and the lock
\* is not held forever.
C14_EveryCallReturns ==
    /\ \A t \in Threads : InCall(t) ~> Done(t)
    /\ (_CACHE_LOCK # 0) ~> (_CACHE_LOCK = 0)
    /\ [](\A t \in Threads : Done(t) => result[t].kind # "raised")

\* C15: with the cache loaded, no step of a lookup or of get_cache_stats
\* changes the cache or the loaded flag; a row fetched from the remote store
\* is not put into the cache, so a lookup that repeats one the store
\* answered queries the store again.
C15_LookupsReadOnly ==
    [][\A t \in Threads :
          /\ (_CACHE_LOADED /\ op'[t] \in {"lookup", "stats"} /\ pc'[t] # pc[t]) =>
                /\ _PRICE_CACHE' = _PRICE_CACHE
                /\ _CACHE_LOADED' = _CACHE_LOADED
          /\ (pc'[t] = "done" /\ pc[t] # "done" /\ trace'[t].repeat /\ resets = 0) =>
                /\ ~trace'[t].seen.present
                /\ trace'[t].gets = 1]_vars

\* the second of two identical lookups was answered by the remote store again
C15_Witness ==
    \E t \in Threads :
        /\ Done(t)
        /\ _CACHE_LOADED
        /\ trace[t].repeat
        /\ trace[t].gets = 1
        /\ trace[t].outcome = "row"
        /\ arg[t].symbol \notin DOMAIN _PRICE_CACHE.rec

\* the granularity a date string asks for: hourly when it holds a blank or a "T"
Asked(date) == IF \E i \in 1..Len(date) : date[i] \in {" ", "T"} THEN "hourly" ELSE "daily"

Min(a, b) == IF a < b THEN a ELSE b

\* C16: when the symbol is in the cache and the key is not in its series of
\* the requested granularity, the keys the error lists are the
\* min(SampleSize, n) greatest of the n keys of that series, greatest first.
C16_SampleKeys ==
    \A t \in Threads :
        (Done(t) /\ op[t] = "lookup" /\ resets = 0 /\ result[t].kind = "error" /\ trace[t].probed
           /\ arg[t].symbol \in DOMAIN _PRICE_CACHE.rec
           /\ arg[t].date \notin DOMAIN _PRICE_CACHE.rec[arg[t].symbol][Asked(arg[t].date)]) =>
            LET K == DOMAIN _PRICE_CACHE.rec[arg[t].symbol][Asked(arg[t].date)]
                s == result[t].samples
            IN /\ Len(s) = Min(SampleSize, Cardinality(K))
               /\ \A i \in 1..Len(s) : s[i] \in K
               /\ \A i \in 1..Len(s) : \A j \in 1..Len(s) : i < j => StrLess(s[j], s[i])
               /\ \A k \in K : (\A i \in 1..Len(s) : s[i] # k) => \A i \in 1..Len(s) : StrLess(k, s[i])

\* a series of more than SampleSize keys was cut to its greatest ones, and
\* the symbol's other series is not empty
C16_Witness ==
    \E t \in Threads :
        /\ Done(t)
        /\ KeyMiss(t)
        /\ arg[t].data_type = "daily"
        /\ Cardinality(DOMAIN trace[t].seen.series) > SampleSize
        /\ Len(result[t].samples) = SampleSize
        /\ result[t].samples[1] = D7
        /\ _PRICE_CACHE.rec[arg[t].symbol]["hourly"] # EmptyDict

\* a document with a symbol: the lines whose series the loader merges
ValidLine(line) == line.kind = "doc" /\ Get(line.meta, "2. Symbol") \notin {PyNone, ""}

ValidOnly(fs) == [i \in SourceIds |-> [exists |-> fs[i].exists, lines |-> SelectSeq(fs[i].lines, ValidLine)]]

\* the sources hold documents (with or without a symbol), malformed lines
\* and blank lines only
MixOfLines(fs) ==
    \A i \in SourceIds : \A j \in 1..Len(fs[i].lines) :
        fs[i].lines[j].kind \in {"doc", "nullmeta", "malformed", "blank"}

\* C17: the first load pass over sources that mix valid documents,
\* malformed lines, blank lines and documents without a symbol ends with the
\* loaded flag set and the cache that the valid documents alone, in the same
\* order, produce; a missing file contributes nothing.
C17_BadLinesSkipped ==
    (resets = 0 /\ loadPasses = 1 /\ _CACHE_LOCK = 0 /\ MixOfLines(snap)) =>
        /\ _CACHE_LOADED
        /\ _PRICE_CACHE = FreshLoad(ValidOnly(snap)).cache

AskedRowKey(date) == IF Asked(date) = "hourly" THEN HourlyPrefix \o date ELSE date

AskedFormatOk(date) == IF Asked(date) = "hourly" THEN _validate_date_hourly(date) ELSE _validate_date_daily(date)

AskedFormatError(date) == IF Asked(date) = "hourly" THEN ErrHourly ELSE ErrDaily

\* C18: a lookup is handled as hourly exactly when its date string holds a
\* blank or a "T": it is validated against that granularity's format (and
\* rejected with the error that names it), it probes that granularity's
\* series, and it asks the remote store for that granularity's row key.
C18_GranularityByText ==
    \A t \in Threads :
        op[t] = "lookup" =>
            /\ (pc[t] \in {"probe", "remote"} \/ trace[t].probed) =>
                  /\ arg[t].data_type = Asked(arg[t].date)
                  /\ AskedFormatOk(arg[t].date)
            /\ (Done(t) /\ result[t].kind # "raised" /\ ~AskedFormatOk(arg[t].date)) =>
                  /\ result[t] = ErrorResult(AskedFormatError(arg[t].date), arg[t].symbol, arg[t].date, <<>>)
                  /\ ~trace[t].probed
            /\ (trace[t].probed /\ trace[t].seen.present /\ resets = 0) =>
                  trace[t].seen.series = _PRICE_CACHE.rec[arg[t].symbol][Asked(arg[t].date)]
            /\ (Done(t) /\ trace[t].outcome = "row") =>
                  /\ <<arg[t].symbol, AskedRowKey(arg[t].date)>> \in DOMAIN table
                  /\ trace[t].azure_data = RemoteBar(table[<<arg[t].symbol, AskedRowKey(arg[t].date)>>])
            /\ (Done(t) /\ trace[t].outcome = "absent") =>
                  <<arg[t].symbol, AskedRowKey(arg[t].date)>> \notin DOMAIN table

\* a date with a "T" and no blank was rejected with the error of the hourly format
C18_Witness ==
    \E t \in Threads :
        /\ Done(t)
        /\ op[t] = "lookup"
        /\ \E i \in 1..Len(arg[t].date) : arg[t].date[i] = "T"
        /\ \A i \in 1..Len(arg[t].date) : arg[t].date[i] # " "
        /\ result[t].kind = "error"
        /\ result[t].error = ErrHourly

FiveFields == {"1. buy price", "2. high", "3. low", "4. sell price", "5. volume"}

FiveOf(bar) == [k \in FiveFields |-> Get(bar, k)]

Other(g) == IF g = "daily" THEN "hourly" ELSE "daily"

GetNow(tbl, p, g) == _get_from_azure_table(_AZURE_ENABLED, tbl, p.symbol, p.date, g, FALSE)

\* C19: a put into the enabled, working store is followed by a get of the
\* same symbol, key and granularity that returns the five fields of the bar
\* put, and it leaves what a get of the same symbol and key string under the
\* other granularity returns as it was; a put that fails changes nothing.
C19_PutThenGet ==
    [][(lastPut'.n # lastPut.n) =>
          /\ (lastPut'.ok =>
                /\ _AZURE_ENABLED
                /\ GetNow(table', lastPut', lastPut'.data_type).found
                /\ GetNow(table', lastPut', lastPut'.data_type).data = FiveOf(lastPut'.ohlcv))
          /\ GetNow(table', lastPut', Other(lastPut'.data_type)) = GetNow(table, lastPut', Other(lastPut'.data_type))
          /\ (~lastPut'.ok => table' = table)]_vars

\* an hourly put of a key string whose daily row exists: the hourly get
\* returns the bar put, the daily get still returns the daily row
C19_Witness ==
    /\ lastPut.ok
    /\ lastPut.data_type = "hourly"
    /\ GetNow(table, lastPut, "hourly").found
    /\ GetNow(table, lastPut, "hourly").data = FiveOf(lastPut.ohlcv)
    /\ GetNow(table, lastPut, "daily").found
    /\ GetNow(table, lastPut, "daily").data # FiveOf(lastPut.ohlcv)

\* the symbols that the documents of a source file name
Named(file) == {Get(file.lines[j].meta, "2. Symbol") : j \in {n \in 1..Len(file.lines) : ValidLine(file.lines[n])}}

\* the lookup of thread t was answered from the cache
FromCache(t) == Success(t) /\ trace[t].outcome # "row"

\* C20: the load of a source of granularity g changes only the g series of
\* the symbols the source names and creates the records it misses with the
\* other series empty; the other series of every symbol and the records of
\* the other symbols stay as they were.  So a lookup answered from the cache
\* returns a bar that a source of the asked granularity defines.
C20_OnlyOwnSeries ==
    /\ [][(loadPos \in SourceIds /\ loadPos' # loadPos) =>
             LET o == Other(Sources[loadPos].cache_type)
                 named == Named(files[loadPos])
             IN /\ DOMAIN _PRICE_CACHE.rec \subseteq DOMAIN _PRICE_CACHE'.rec
                /\ \A s \in DOMAIN _PRICE_CACHE'.rec :
                      IF s \in DOMAIN _PRICE_CACHE.rec
                      THEN /\ _PRICE_CACHE'.rec[s][o] = _PRICE_CACHE.rec[s][o]
                           /\ s \notin named => _PRICE_CACHE'.rec[s] = _PRICE_CACHE.rec[s]
                      ELSE /\ s \in named
                           /\ _PRICE_CACHE'.rec[s][o] = EmptyDict]_vars
    /\ [](\A t \in Threads :
             (FromCache(t) /\ loadPasses = 1 /\ resets = 0) =>
                 \E p \in Writers(snap, Asked(arg[t].date), arg[t].symbol, arg[t].date) :
                     result[t].ohlcv \in {OhlcvOf(BarAt(snap, p, arg[t].date)), Redacted(BarAt(snap, p, arg[t].date))})

\* an hourly source held a document that carries a daily series too: the
\* hourly series took its hourly key, the daily series stayed empty, and the
\* daily lookup of the document's daily key found nothing
C20_Witness ==
    \E t \in Threads :
        /\ Done(t)
        /\ op[t] = "lookup"
        /\ arg[t].data_type = "daily"
        /\ result[t].kind = "error"
        /\ snap[2].exists
        /\ \E j \in 1..Len(snap[2].lines) :
              /\ ValidLine(snap[2].lines[j])
              /\ Get(snap[2].lines[j].meta, "2. Symbol") = arg[t].symbol
              /\ DAILY \in DOMAIN snap[2].lines[j].fields
              /\ arg[t].date \in DOMAIN snap[2].lines[j].fields[DAILY]
        /\ arg[t].symbol \in DOMAIN _PRICE_CACHE.rec
        /\ _PRICE_CACHE.rec[arg[t].symbol]["daily"] = EmptyDict
        /\ _PRICE_CACHE.rec[arg[t].symbol]["hourly"] # EmptyDict

=============================================================================
